---------------------------- MODULE Spec2Model ----------------------------
(***************************************************************************)
(* A model of docker/vcfparser/scripts/parser.py: the VCFParser reader     *)
(* (construction, sample renaming, record iteration) and the VariantRecord *)
(* transformations (update_genotypes, shuffle_samples, fix_ploidy).        *)
(*                                                                         *)
(* A Python string is a sequence of atoms.  An atom is one character, or a *)
(* run of letters that no operation of the program looks inside ("CHROM",  *)
(* "GT").  Delimiters, digits, "#", "." and the characters of sample names *)
(* and sex tokens are always atoms of their own, so that split, join, int, *)
(* str, lower, startswith, rstrip and the regular expression are computed  *)
(* on the text as the program computes them.                               *)
(***************************************************************************)
EXTENDS Integers, Sequences, FiniteSets, TLC

VARIABLES
    \* ---- VCFParser (parser.py:17-141)
    vcf,                   \* the lines of the text source, in order
    vcf_pos,               \* number of lines of the source already read
    status,                \* "new", "ok", or the exception __init__ raised
    metadata,              \* self.metadata
    header,                \* self.header, or NoAttr while never assigned
    samples,               \* self.samples
    next_line,             \* self.next_line
    next_idx,              \* history: the source index of the line in next_line
    beginning,             \* self.beginning
    gens,                  \* the generators made by iter(parser): their positions
    yielded,               \* history: source index of every record yielded, in order
    raised,                \* history: source index of every line __iter__ raised at
    names_call,            \* history: the last change_sample_names call
    \* ---- VariantRecord (parser.py:144-302)
    line,                  \* self.line
    alleles,               \* self.alleles
    format,                \* self.format
    chrom,                 \* self.chrom
    pos,                   \* self.pos
    variant_data,          \* self.variant_data
    original_sample_data,  \* self.original_sample_data
    sample_data,           \* self.sample_data
    last,                  \* history: the last call on the record (sexes: of a call that reached the region loop)
    before                 \* history: the call before the last one

readerVars == <<vcf, vcf_pos, status, metadata, header, samples, next_line,
                next_idx, beginning, gens, yielded, raised, names_call>>
recordVars == <<line, alleles, format, chrom, pos, variant_data,
                original_sample_data, sample_data, last, before>>
vars == <<readerVars, recordVars>>

-----------------------------------------------------------------------------
(* Bounds of the model.                                                    *)

MaxSamples == 2

\* the number of transformation calls made on one record
MaxCalls == 3

\* the number of lines of a text source
MaxLines == 4

\* the number of generators made from one parser
MaxIters == 2

-----------------------------------------------------------------------------
(* Python's str and list operations, on sequences of atoms.                *)

TAB == "\t"
NL == "\n"

Min2(a, b) == IF a <= b THEN a ELSE b

\* s[i:] for 0 <= i (Python slice, zero-based)
SliceFrom(s, i) == SubSeq(s, i + 1, Len(s))

\* s[:i]
SliceTo(s, i) == SubSeq(s, 1, Min2(i, Len(s)))

\* position of the first sep in s, 0 when there is none
FirstSep(s, sep) ==
    IF \E i \in 1..Len(s) : s[i] = sep
    THEN CHOOSE i \in 1..Len(s) : s[i] = sep /\ \A j \in 1..(i - 1) : s[j] # sep
    ELSE 0

RECURSIVE Split(_, _)
\* s.split(sep) for a one-character sep: "".split(sep) is [""]
Split(s, sep) ==
    LET k == FirstSep(s, sep)
    IN  IF k = 0 THEN <<s>>
        ELSE <<SubSeq(s, 1, k - 1)>> \o Split(SubSeq(s, k + 1, Len(s)), sep)

RECURSIVE Join(_, _)
\* sep.join(parts)
Join(sep, parts) ==
    IF Len(parts) = 0 THEN <<>>
    ELSE IF Len(parts) = 1 THEN parts[1]
    ELSE parts[1] \o <<sep>> \o Join(sep, Tail(parts))

Digits == <<"0", "1", "2", "3", "4", "5", "6", "7", "8", "9">>

IsDigit(c) == \E d \in 1..10 : Digits[d] = c

DigitVal(c) == (CHOOSE d \in 1..10 : Digits[d] = c) - 1

IntError == -1

RECURSIVE ParseDigits(_, _)
ParseDigits(s, acc) ==
    IF Len(s) = 0 THEN acc ELSE ParseDigits(Tail(s), 10 * acc + DigitVal(s[1]))

\* int(s) on unsigned decimal text; IntError stands for the ValueError
ParseInt(s) ==
    IF Len(s) >= 1 /\ \A i \in 1..Len(s) : IsDigit(s[i])
    THEN ParseDigits(s, 0)
    ELSE IntError

RECURSIVE ToStr(_)
\* str(n) for n >= 0
ToStr(n) ==
    IF n < 10 THEN <<Digits[n + 1]>>
    ELSE ToStr(n \div 10) \o <<Digits[(n % 10) + 1]>>

\* xs.index(x), zero-based; -1 stands for the ValueError
IndexOf(xs, x) ==
    IF \E i \in 1..Len(xs) : xs[i] = x
    THEN (CHOOSE i \in 1..Len(xs) : xs[i] = x /\ \A j \in 1..(i - 1) : xs[j] # x) - 1
    ELSE -1

\* xs.count(x)
Count(xs, x) == Cardinality({i \in 1..Len(xs) : xs[i] = x})

\* max(xs) of a non-empty list of integers
MaxOf(xs) == CHOOSE m \in {xs[i] : i \in 1..Len(xs)} : \A i \in 1..Len(xs) : xs[i] <= m

UpperCase == <<"M", "F", "X", "Y", "Q">>
LowerCase == <<"m", "f", "x", "y", "q">>

LowerChar(c) ==
    IF \E i \in 1..Len(UpperCase) : UpperCase[i] = c
    THEN LowerCase[CHOOSE i \in 1..Len(UpperCase) : UpperCase[i] = c]
    ELSE c

\* s.lower()
Lower(s) == [i \in 1..Len(s) |-> LowerChar(s[i])]

-----------------------------------------------------------------------------
(* VariantRecord: the pure parts of its methods.                           *)

NoError == "none"

\* dict(zip(format, sample)): the keys, and the value of a key (the last
\* pairing wins; zip stops at the shorter list)
DictKeys(fmt, sample) == {fmt[j] : j \in 1..Min2(Len(fmt), Len(sample))}

DictGet(fmt, sample, key) ==
    LET m == Min2(Len(fmt), Len(sample))
        j == CHOOSE i \in 1..m : fmt[i] = key /\ \A h \in (i + 1)..m : fmt[h] # key
    IN  sample[j]

InList(xs, x) == \E i \in 1..Len(xs) : xs[i] = x

GT == <<"GT">>
PL == <<"PL">>
AD == <<"AD">>
DR == <<"DR">>
DV == <<"DV">>

\* new_sample = [sample_dict[key] for key in format], with sample_dict
\* updated by upd (a set of <<key, value>> pairs)
NewSample(fmt, sample, upd) ==
    IF \E j \in 1..Len(fmt) :
           fmt[j] \notin DictKeys(fmt, sample) \cup {u[1] : u \in upd}
    THEN [err |-> "KeyError", val |-> <<>>]
    ELSE [err |-> NoError,
          val |-> [j \in 1..Len(fmt) |->
                     IF \E u \in upd : u[1] = fmt[j]
                     THEN (CHOOSE u \in upd : u[1] = fmt[j])[2]
                     ELSE DictGet(fmt, sample, fmt[j])]]

\* the "PL" branch of convert_to_haploid: the PL values are the strings
\* that split(",") returns, and pl / -10 on a string raises TypeError
ConvertPL(fmt, sample) ==
    IF PL \notin DictKeys(fmt, sample) THEN [err |-> "KeyError", val |-> <<>>]
    ELSE LET pls == Split(DictGet(fmt, sample, PL), ",")
         IN  IF Len(pls) # 2 /\ GT \notin DictKeys(fmt, sample)
             THEN [err |-> "KeyError", val |-> <<>>]
             ELSE IF Len(pls) # 3 THEN [err |-> "ValueError", val |-> <<>>]
             ELSE [err |-> "TypeError", val |-> <<>>]

\* the "AD" branch: a tie assigns the local gt only, a unique maximum also
\* updates the sample's GT
ConvertAD(fmt, sample) ==
    IF AD \notin DictKeys(fmt, sample) THEN [err |-> "KeyError", val |-> <<>>]
    ELSE LET parts == Split(DictGet(fmt, sample, AD), ",")
             ads == [i \in 1..Len(parts) |-> ParseInt(parts[i])]
         IN  IF \E i \in 1..Len(ads) : ads[i] = IntError
             THEN [err |-> "ValueError", val |-> <<>>]
             ELSE LET max_ad == MaxOf(ads)
                  IN  IF Count(ads, max_ad) # 1
                      THEN NewSample(fmt, sample, {})
                      ELSE NewSample(fmt, sample,
                                     {<<GT, ToStr(IndexOf(ads, max_ad))>>})

\* the "DR"/"DV" branch: max_ad is a local that only the AD branch assigns
ConvertDRDV(fmt, sample) ==
    IF DR \notin DictKeys(fmt, sample) THEN [err |-> "KeyError", val |-> <<>>]
    ELSE IF ParseInt(DictGet(fmt, sample, DR)) = IntError
    THEN [err |-> "ValueError", val |-> <<>>]
    ELSE IF DV \notin DictKeys(fmt, sample) THEN [err |-> "KeyError", val |-> <<>>]
    ELSE IF ParseInt(DictGet(fmt, sample, DV)) = IntError
    THEN [err |-> "ValueError", val |-> <<>>]
    ELSE [err |-> "UnboundLocalError", val |-> <<>>]

\* convert_to_haploid(sample_idx) on the format text and one sample's text
convert_to_haploid(fmtText, sampleText) ==
    LET fmt == Split(fmtText, ":")
        sample == Split(sampleText, ":")
    IN  IF InList(fmt, PL) THEN ConvertPL(fmt, sample)
        ELSE IF InList(fmt, AD) THEN ConvertAD(fmt, sample)
        ELSE IF InList(fmt, DR) /\ InList(fmt, DV) THEN ConvertDRDV(fmt, sample)
        ELSE [err |-> "ValueError", val |-> <<>>]

\* in_regions(chrom, pos, regions)
in_regions(c, p, regions) ==
    \E r \in 1..Len(regions) :
        c = regions[r][1] /\ regions[r][2] < p /\ p <= regions[r][3]

Males == {<<"m">>, <<"m", "a", "l", "e">>, <<"x", "y">>}
Females == {<<"f">>, <<"f", "e", "m", "a", "l", "e">>, <<"x", "x">>}

RECURSIVE FixLoop(_, _, _, _, _)
\* the loop of fix_ploidy from sample index i (one-based here) on: the
\* sample data it leaves, the exception that ended it, and the number of
\* samples convert_to_haploid was applied to and written back
FixLoop(fmtText, sd, sexes, i, n) ==
    IF i > Len(sd) THEN [sd |-> sd, err |-> NoError, nconv |-> n]
    ELSE LET sex == Lower(sexes[i])
         IN  IF sex \in Males
             THEN LET r == convert_to_haploid(fmtText, sd[i])
                  IN  IF r.err # NoError
                      THEN [sd |-> sd, err |-> r.err, nconv |-> n]
                      ELSE FixLoop(fmtText,
                                   [sd EXCEPT ![i] = Join(":", r.val)],
                                   sexes, i + 1, n + 1)
             ELSE IF sex \notin Females
             THEN [sd |-> sd, err |-> "ValueError", nconv |-> n]
             ELSE FixLoop(fmtText, sd, sexes, i + 1, n)

\* a faulty variant of Modified: the two lists compared as multisets, so
\* that a reordering goes unseen
ModifiedAsBag(orig, cur) ==
    \E i \in 1..Len(orig) : Count(orig, orig[i]) # Count(cur, orig[i])

\* the comparison of fix_ploidy that detects an already modified record
Modified(orig, cur) == orig # cur

\* a faulty variant of SnapshotAfterWrite: one list under both names, so
\* that the write shows in the snapshot too
SnapshotAliased(orig, sd) == sd

\* self.sample_data[sample_idx] = ... writes the list that sample_data
\* names; original_sample_data is another slice of variant_line and keeps
\* its value
SnapshotAfterWrite(orig, sd) == orig

\* fix_ploidy: the sample data it leaves, whether it reached the last line
\* (self.line is rebuilt), its exception, and whether the record was in a region
FixPloidyResult(sexes, regions, fmtText, c, p, orig, sd) ==
    LET unchanged == [sd |-> sd, err |-> "ValueError", nconv |-> 0, inreg |-> FALSE]
    IN  IF Len(sexes) # Len(sd) THEN unchanged
        ELSE IF Modified(orig, sd) THEN unchanged
        ELSE IF ParseInt(p) = IntError THEN unchanged
        ELSE IF in_regions(c, ParseInt(p), regions)
        THEN LET r == FixLoop(fmtText, sd, sexes, 1, 0)
             IN  [sd |-> r.sd, err |-> r.err, nconv |-> r.nconv, inreg |-> TRUE]
        ELSE [sd |-> sd, err |-> NoError, nconv |-> 0, inreg |-> FALSE]

\* the genotype indices of one sample: int of each "/"-part of its first token
Genotype(sampleText) ==
    LET parts == Split(Split(sampleText, ":")[1], "/")
    IN  [k \in 1..Len(parts) |-> ParseInt(parts[k])]

RECURSIVE FullGenotype(_, _, _)
\* [self.alleles[hap] for hap in genotype] from haplotype k on: int and
\* the list access are applied to one haplotype after the other
FullGenotype(g, selfAlleles, k) ==
    IF k > Len(g) THEN [err |-> NoError, val |-> <<>>]
    ELSE IF g[k] = IntError THEN [err |-> "ValueError", val |-> <<>>]
    ELSE IF g[k] >= Len(selfAlleles) THEN [err |-> "IndexError", val |-> <<>>]
    ELSE LET rest == FullGenotype(g, selfAlleles, k + 1)
         IN  IF rest.err # NoError THEN rest
             ELSE [err |-> NoError, val |-> <<selfAlleles[g[k] + 1]>> \o rest.val]

\* the sample text rebuilt around the new genotype
RemapSample(sampleText, full, target) ==
    Join(":", <<Join("/", [k \in 1..Len(full) |-> ToStr(IndexOf(target, full[k]))])>>
              \o Tail(Split(sampleText, ":")))

\* update_genotypes(ref, alts) on the whole sample list: full_genotypes for
\* every sample, then new_genotypes for every sample, then the assignment
UpdateGenotypesResult(ref, alts, selfAlleles, sd) ==
    LET target == <<ref>> \o alts
        full == [i \in 1..Len(sd) |-> FullGenotype(Genotype(sd[i]), selfAlleles, 1)]
    IN  IF \E i \in 1..Len(sd) : full[i].err # NoError
        THEN [err |-> full[CHOOSE i \in 1..Len(sd) :
                             full[i].err # NoError
                             /\ \A j \in 1..(i - 1) : full[j].err = NoError].err,
              sd |-> sd]
        ELSE IF \E i \in 1..Len(sd) : \E k \in 1..Len(full[i].val) :
                    IndexOf(target, full[i].val[k]) = -1
        THEN [err |-> "ValueError", sd |-> sd]
        ELSE [err |-> NoError,
              sd |-> [i \in 1..Len(sd) |-> RemapSample(sd[i], full[i].val, target)]]

\* str(record)
RecordStr(ln) == Join(TAB, ln)

-----------------------------------------------------------------------------
(* The records the transformations are run on: the lists of fields that    *)
(* __iter__ hands to VariantRecord, 9 leading fields and 1..MaxSamples     *)
(* sample fields.                                                          *)

FormatAD == <<"GT", ":", "AD">>
FormatPL == <<"GT", ":", "PL">>
FormatDRDV == <<"GT", ":", "DR", ":", "DV">>
FormatDP == <<"GT", ":", "DP">>

SamplePool(fmtText) ==
    IF fmtText = FormatAD
    THEN {<<"0", "/", "1", ":", "3", ",", "1", "0">>,       \* 0/1:3,10
          <<"0", "/", "1", ":", "1", "0", ",", "1", "0">>,  \* 0/1:10,10
          <<"1", ":", "3", ",", "1", "0">>}                 \* 1:3,10
    ELSE IF fmtText = FormatPL
    THEN {<<"0", "/", "1", ":", "0", ",", "3", ",", "3", "0">>,  \* 0/1:0,3,30
          <<".", "/", ".", ":", "0", ",", "3", ",", "3", "0">>,  \* ./.:0,3,30
          <<"0", ":", "0", ",", "3", "0">>}                      \* 0:0,30
    ELSE IF fmtText = FormatDRDV
    THEN {<<"0", "/", "1", ":", "3", ":", "1", "0">>,       \* 0/1:3:10
          <<"1", "/", "1", ":", "5", ":", "5">>}            \* 1/1:5:5
    ELSE {<<"0", "/", "2", ":", "7">>}                      \* 0/2:7

SeqsUpTo(S, n) == UNION {[1..k -> S] : k \in 1..n}

AltFields == {<<"C">>}

LeadingFields(alt, fmtText) ==
    <<<<"X">>, <<"5">>, <<".">>, <<"A">>, alt, <<".">>, <<"PASS">>, <<".">>, fmtText>>

RecordLines ==
    {LeadingFields(alt, f) \o ss :
        alt \in AltFields,
        f \in {FormatAD, FormatPL, FormatDRDV, FormatDP},
        ss \in UNION {SeqsUpTo(SamplePool(g), MaxSamples) :
                        g \in {FormatAD, FormatPL, FormatDRDV, FormatDP}}}

\* a record pairs a FORMAT with samples of that FORMAT's pool
WellPaired(vl) == \A i \in 10..Len(vl) : vl[i] \in SamplePool(vl[9])

\* the arguments the transformations are called with
SexTokens == {<<"X", "Y">>, <<"f">>, <<"q">>}

\* the lists of the right length n, and one that is too long
SexLists(n) == [1..n -> SexTokens] \cup {[i \in 1..(n + 1) |-> <<"f">>]}

RegionLists ==
    {<< <<<<"X">>, 5, 10>> >>,                        \* starts at 5: excludes it
     << <<<<"Y">>, 0, 10>>, <<<<"X">>, 4, 5>> >>}     \* the second ends at 5

TargetAlleles ==
    {<<<<"A">>, <<"C">>>>,      \* the record's own alleles
     <<<<"C">>, <<"A">>>>,      \* reordered
     <<<<"A">>, <<"G">>>>}      \* without the allele C

Permutations1(n) == {p \in [1..n -> 1..n] : \A i, j \in 1..n : p[i] = p[j] => i = j}

-----------------------------------------------------------------------------
(* VariantRecord: construction and the three transformations.              *)

IdleReader ==
    /\ vcf = <<>> /\ vcf_pos = 0 /\ status = "new" /\ metadata = <<>>
    /\ header = <<>> /\ samples = <<>> /\ next_line = <<>> /\ next_idx = 0
    /\ beginning = TRUE
    /\ gens = <<>> /\ yielded = <<>> /\ raised = {} /\ names_call = <<>>

NoCall == [op |-> "init", err |-> NoError, nconv |-> 0, changed |-> FALSE]

\* VariantRecord.__init__(variant_line)
RecordInit(variant_line) ==
    /\ line = variant_line
    /\ chrom = variant_line[1]
    /\ pos = variant_line[2]
    /\ alleles = <<variant_line[4]>> \o Split(variant_line[5], ",")
    /\ format = variant_line[9]
    /\ variant_data = SliceTo(variant_line, 9)
    /\ original_sample_data = SliceFrom(variant_line, 9)
    /\ sample_data = SliceFrom(variant_line, 9)
    /\ last = [op |-> "init", err |-> NoError, sd_before |-> SliceFrom(variant_line, 9),
               sexes |-> <<>>, lenok |-> FALSE, inreg |-> FALSE, nconv |-> 0,
               target |-> <<>>, cur_before |-> <<>>,
               cur |-> <<variant_line[4]>> \o Split(variant_line[5], ","),
               touched |-> FALSE, calls |-> 0]
    /\ before = NoCall

InitRecord ==
    /\ IdleReader
    /\ \E vl \in RecordLines : WellPaired(vl) /\ RecordInit(vl)

Summary == [op |-> last.op, err |-> last.err, nconv |-> last.nconv,
            changed |-> sample_data # last.sd_before]

\* shuffle_samples(): random.sample draws any permutation
ShuffleSamples ==
    \E p \in Permutations1(Len(sample_data)) :
        /\ last.calls < MaxCalls
        /\ sample_data' = [i \in 1..Len(sample_data) |-> sample_data[p[i]]]
        /\ line' = variant_data \o sample_data'
        /\ last' = [last EXCEPT !.calls = last.calls + 1,
                                !.op = "shuffle_samples", !.err = NoError,
                                !.sd_before = sample_data, !.sexes = <<>>, !.lenok = FALSE,
                                !.inreg = FALSE, !.nconv = 0, !.target = <<>>,
                                !.cur_before = last.cur, !.touched = TRUE]
        /\ before' = Summary
        /\ UNCHANGED <<alleles, format, chrom, pos, variant_data, original_sample_data>>
        /\ UNCHANGED readerVars

\* update_genotypes(ref, alts)
UpdateGenotypes ==
    \E t \in TargetAlleles :
        \E r \in {UpdateGenotypesResult(Head(t), Tail(t), alleles, sample_data)} :
            /\ last.calls < MaxCalls
            /\ sample_data' = r.sd
            /\ line' = IF r.err = NoError THEN variant_data \o r.sd ELSE line
            /\ last' = [last EXCEPT !.calls = last.calls + 1,
                                    !.op = "update_genotypes", !.err = r.err,
                                    !.sd_before = sample_data, !.sexes = <<>>, !.lenok = FALSE,
                                    !.inreg = FALSE, !.nconv = 0,
                                    !.target = IF r.err = NoError THEN t ELSE <<>>,
                                    !.cur_before = last.cur,
                                    !.cur = IF r.err = NoError THEN t ELSE last.cur,
                                    !.touched = last.touched \/ r.err = NoError]
            /\ before' = Summary
            /\ UNCHANGED <<alleles, format, chrom, pos, variant_data, original_sample_data>>
            /\ UNCHANGED readerVars

\* fix_ploidy(sexes, regions)
FixPloidy ==
    \E sexes \in SexLists(Len(sample_data)), regions \in RegionLists :
        \E r \in {FixPloidyResult(sexes, regions, format, chrom, pos,
                                 original_sample_data, sample_data)} :
            /\ last.calls < MaxCalls
            /\ sample_data' = r.sd
            /\ line' = IF r.err = NoError THEN variant_data \o r.sd ELSE line
            /\ last' = [last EXCEPT !.calls = last.calls + 1,
                                    !.op = "fix_ploidy", !.err = r.err,
                                    !.sd_before = sample_data,
                                    !.sexes = IF r.inreg THEN sexes ELSE <<>>,
                                    !.lenok = Len(sexes) = Len(sample_data),
                                    !.inreg = r.inreg, !.nconv = r.nconv,
                                    !.target = <<>>, !.cur_before = last.cur]
            /\ before' = Summary
            /\ original_sample_data' = SnapshotAfterWrite(original_sample_data, r.sd)
            /\ UNCHANGED <<alleles, format, chrom, pos, variant_data>>
            /\ UNCHANGED readerVars

NextRecord == ShuffleSamples \/ UpdateGenotypes \/ FixPloidy

SpecRecord == InitRecord /\ [][NextRecord]_vars

-----------------------------------------------------------------------------
(* Properties of the transformations (SpecRecord).                         *)

IsMale(sex) == Lower(sex) \in Males
IsFemale(sex) == Lower(sex) \in Females

\* the last call was a fix_ploidy with a sexes list of the right length
FixCalled == last.op = "fix_ploidy" /\ last.lenok

\* the last call left the sample data as it found them and converted nothing
FixRefused ==
    /\ last.err = "ValueError"
    /\ last.nconv = 0
    /\ sample_data = last.sd_before

\* C1 as stated: once shuffle_samples or update_genotypes has completed on a
\* record, every later fix_ploidy call (sexes of the right length) fails and
\* converts nothing.
C1_AsStated == (FixCalled /\ last.touched) => FixRefused

\* C1 amended: a fix_ploidy call (sexes of the right length) on a record
\* whose current sample data differ from the original snapshot fails with
\* an error and converts nothing; fix_ploidy converts only on a record whose
\* sample data equal the snapshot.
C1_FixRefusedOnModified ==
    /\ (FixCalled /\ last.sd_before # original_sample_data) => FixRefused
    /\ (last.op = "fix_ploidy" /\ last.nconv > 0)
           => last.sd_before = original_sample_data

C1_Witness ==
    /\ FixCalled /\ last.touched
    /\ last.sd_before # original_sample_data
    /\ FixRefused

\* the call before the last was a fix_ploidy that applied the haploid
\* conversion to at least one sample, and the last is a fix_ploidy again
FixTwice ==
    /\ FixCalled
    /\ before.op = "fix_ploidy" /\ before.nconv > 0

\* C2 as stated: after a fix_ploidy that converted at least one male sample
\* of an in-region record, a second fix_ploidy with nothing in between fails.
C2_AsStated == FixTwice => last.err # NoError

\* C2 amended: after a fix_ploidy that converted at least one sample and
\* thereby changed the sample data, a second fix_ploidy with nothing in
\* between fails with an error and converts nothing.
C2_SecondFixRefused == (FixTwice /\ before.changed) => FixRefused

C2_Witness == FixTwice /\ before.changed /\ FixRefused

\* C6: after update_genotypes(ref, alts) every haplotype index denotes in
\* the target list the allele it denoted before in the current list (the
\* target of the previous call, the record's own alleles at first), the
\* other tokens of each sample are unchanged, and a call whose target is the
\* current list changes nothing.
C6_AsStated ==
    (last.op = "update_genotypes" /\ last.err = NoError) =>
        /\ \A i \in 1..Len(sample_data) :
             LET old == Genotype(last.sd_before[i])
                 new == Genotype(sample_data[i])
             IN  /\ Len(new) = Len(old)
                 /\ \A k \in 1..Len(old) :
                        /\ old[k] # IntError /\ old[k] < Len(last.cur_before)
                        /\ new[k] # IntError /\ new[k] < Len(last.target)
                        /\ last.target[new[k] + 1] = last.cur_before[old[k] + 1]
                 /\ Tail(Split(sample_data[i], ":"))
                        = Tail(Split(last.sd_before[i], ":"))
        /\ last.target = last.cur_before => sample_data = last.sd_before

\* C7: str(record) is the tab-join of the 9 leading fields and the current
\* sample fields, one per sample column, after any sequence of calls,
\* failed ones included.
C7_AsStated ==
    /\ RecordStr(line) = Join(TAB, variant_data \o sample_data)
    /\ Len(variant_data) = 9
    /\ Len(sample_data) = Len(original_sample_data)

\* the last call was a fix_ploidy that entered the region loop with only
\* valid sex tokens
FixInRegion ==
    /\ last.op = "fix_ploidy" /\ last.inreg
    /\ \A i \in 1..Len(last.sexes) : IsMale(last.sexes[i]) \/ IsFemale(last.sexes[i])

C9_Token(fmt, sample, key) == sample[CHOOSE j \in 1..Len(fmt) : fmt[j] = key]

C9_Depths(fmt, sample) ==
    IF InList(fmt, AD)
    THEN LET parts == Split(C9_Token(fmt, sample, AD), ",")
         IN  [i \in 1..Len(parts) |-> ParseInt(parts[i])]
    ELSE <<ParseInt(C9_Token(fmt, sample, DR)), ParseInt(C9_Token(fmt, sample, DV))>>

\* the sample text C9 expects: GT is "." on a tie of the maximum depth,
\* else the index of the maximum; every other token as it was
C9_Expected(fmtText, sampleText) ==
    LET fmt == Split(fmtText, ":")
        sample == Split(sampleText, ":")
        depths == C9_Depths(fmt, sample)
        gt == IF Count(depths, MaxOf(depths)) > 1 THEN <<".">>
              ELSE ToStr(IndexOf(depths, MaxOf(depths)))
    IN  Join(":", [j \in 1..Len(fmt) |-> IF fmt[j] = GT THEN gt ELSE sample[j]])

C9_DepthBased ==
    LET fmt == Split(format, ":")
    IN  /\ ~InList(fmt, PL)
        /\ InList(fmt, AD) \/ (InList(fmt, DR) /\ InList(fmt, DV))

\* C9: in an in-region record whose FORMAT has AD and no PL, or DR and DV
\* and neither PL nor AD, fix_ploidy rewrites every male sample so that GT
\* is "." when the maximum depth is tied and the index of the maximum depth
\* otherwise, all other tokens unchanged.
C9_AsStated ==
    (FixInRegion /\ C9_DepthBased) =>
        \A i \in 1..Len(last.sexes) :
            IsMale(last.sexes[i])
                => sample_data[i] = C9_Expected(format, last.sd_before[i])

C10_Ints(text) ==
    LET parts == Split(text, ",") IN [i \in 1..Len(parts) |-> ParseInt(parts[i])]

C10_HasPL3(i) ==
    LET fmt == Split(format, ":")
        sample == Split(last.sd_before[i], ":")
    IN  /\ InList(fmt, PL) /\ InList(fmt, GT)
        /\ Len(Split(C9_Token(fmt, sample, PL), ",")) = 3

\* C10: in an in-region biallelic record whose FORMAT has PL with 3 values,
\* fix_ploidy completes without error and rewrites every male sample: PL
\* holds two values with minimum 0, GT is the index of the zero entry (or
\* "." when GT was "./."), GQ (where FORMAT has it) is the smallest non-zero
\* PL; for PL 0,3,30 the new GT is 0.
C10_AsStated ==
    (/\ FixInRegion
     /\ Len(alleles) = 2
     /\ \A i \in 1..Len(last.sexes) : IsMale(last.sexes[i]) => C10_HasPL3(i))
    => /\ last.err = NoError
       /\ \A i \in 1..Len(last.sexes) :
            IsMale(last.sexes[i]) =>
                LET fmt == Split(format, ":")
                    old == Split(last.sd_before[i], ":")
                    new == Split(sample_data[i], ":")
                    pls == C10_Ints(C9_Token(fmt, new, PL))
                    gt == C9_Token(fmt, new, GT)
                IN  /\ Len(pls) = 2
                    /\ \A k \in 1..2 : pls[k] >= 0
                    /\ \E k \in 1..2 : pls[k] = 0
                    /\ IF C9_Token(fmt, old, GT) = <<".", "/", ".">>
                       THEN gt = <<".">>
                       ELSE ParseInt(gt) # IntError /\ ParseInt(gt) < 2
                            /\ pls[ParseInt(gt) + 1] = 0
                    /\ C9_Token(fmt, old, PL) = <<"0", ",", "3", ",", "3", "0">>
                           /\ C9_Token(fmt, old, GT) # <<".", "/", ".">>
                           => gt = <<"0">> /\ pls[2] > 0

-----------------------------------------------------------------------------
(* VCFParser: construction (parser.py:52-72).                              *)

Whitespace == {" ", TAB, NL}

RECURSIVE RStrip(_)
\* s.rstrip()
RStrip(s) ==
    IF Len(s) > 0 /\ s[Len(s)] \in Whitespace THEN RStrip(SubSeq(s, 1, Len(s) - 1))
    ELSE s

\* s.startswith(prefix)
StartsWith(s, prefix) == Len(s) >= Len(prefix) /\ SubSeq(s, 1, Len(prefix)) = prefix

\* self.header_columns
header_columns ==
    <<<<"CHROM">>, <<"POS">>, <<"ID">>, <<"REF">>, <<"ALT">>, <<"QUAL">>,
      <<"FILTER">>, <<"INFO">>, <<"FORMAT">>>>

\* the value of an attribute that was never assigned
NoAttr == "no attribute"

\* self.vcf.readline().rstrip() with p lines already read: "" at the end
ReadLine(file, p) ==
    IF p < Len(file) THEN [line |-> RStrip(file[p + 1]), pos |-> p + 1]
    ELSE [line |-> <<>>, pos |-> p]

\* parse_header_line(line)
parse_header_line(ln) ==
    LET hdr == Split(RStrip(SliceFrom(ln, 1)), TAB)
    IN  IF SliceTo(hdr, 9) # header_columns
        THEN [err |-> "IOError", header |-> hdr, samples |-> <<>>]
        ELSE IF Len(SliceFrom(hdr, 9)) < 1
        THEN [err |-> "IOError", header |-> hdr, samples |-> SliceFrom(hdr, 9)]
        ELSE [err |-> NoError, header |-> hdr, samples |-> SliceFrom(hdr, 9)]

RECURSIVE InitLoop(_, _, _, _, _, _)
\* the while loop of __init__: nl is self.next_line, p the lines read
InitLoop(file, p, nl, meta, hdr, smp) ==
    IF ~StartsWith(nl, <<"#">>)
    THEN [err |-> NoError, pos |-> p, next_line |-> nl, metadata |-> meta,
          header |-> hdr, samples |-> smp]
    ELSE IF StartsWith(nl, <<"#", "#">>)
    THEN InitLoop(file, ReadLine(file, p).pos, ReadLine(file, p).line,
                  Append(meta, nl), hdr, smp)
    ELSE LET h == parse_header_line(nl)
         IN  IF h.err # NoError
             THEN [err |-> h.err, pos |-> p, next_line |-> nl, metadata |-> meta,
                   header |-> h.header, samples |-> h.samples]
             ELSE InitLoop(file, ReadLine(file, p).pos, ReadLine(file, p).line,
                           meta, h.header, h.samples)

\* VCFParser.__init__ from the first readline on
ConstructResult(file) ==
    LET first == ReadLine(file, 0)
    IN  IF ~StartsWith(first.line, <<"#">>)
        THEN [err |-> "IOError", pos |-> first.pos, next_line |-> first.line,
              metadata |-> <<>>, header |-> NoAttr, samples |-> <<>>]
        ELSE InitLoop(file, first.pos, first.line, <<>>, NoAttr, <<>>)

\* the state __init__ leaves
Constructed(r) ==
    /\ status' = IF r.err = NoError THEN "ok" ELSE r.err
    /\ vcf_pos' = r.pos
    /\ next_line' = r.next_line
    /\ next_idx' = r.pos
    /\ metadata' = r.metadata
    /\ header' = r.header
    /\ samples' = r.samples

\* the lines of the sources
HeaderText(names) ==
    <<"#">> \o Join(TAB, header_columns \o names) \o <<NL>>

MetaLine == <<"#", "#", "m", NL>>
HeaderLine == HeaderText(<<<<"S", "1">>>>)
HeaderNoSamples == HeaderText(<<>>)
HeaderBadColumns == <<"#", "CHROM", TAB, "ID", NL>>
DataLine == Join(TAB, [i \in 1..10 |-> <<"x">>]) \o <<NL>>
ShortLine == Join(TAB, [i \in 1..9 |-> <<"x">>]) \o <<NL>>
EmptyLine == <<NL>>

SourceLines ==
    {MetaLine, HeaderLine, HeaderNoSamples, HeaderBadColumns, DataLine,
     ShortLine, EmptyLine}

Sources == UNION {[1..k -> SourceLines] : k \in 0..MaxLines}

IdleRecord ==
    /\ line = <<>> /\ alleles = <<>> /\ format = <<>> /\ chrom = <<>> /\ pos = <<>>
    /\ variant_data = <<>> /\ original_sample_data = <<>> /\ sample_data = <<>>
    /\ last = <<>> /\ before = <<>>

InitReader ==
    /\ vcf \in Sources
    /\ vcf_pos = 0 /\ status = "new" /\ metadata = <<>> /\ header = NoAttr
    /\ samples = <<>> /\ next_line = <<>> /\ next_idx = 0 /\ beginning = TRUE
    /\ gens = <<>> /\ yielded = <<>> /\ raised = {} /\ names_call = <<>>
    /\ IdleRecord

\* VCFParser(infile)
Construct ==
    /\ status = "new"
    /\ Constructed(ConstructResult(vcf))
    /\ UNCHANGED <<vcf, beginning, gens, yielded, raised, names_call>>
    /\ UNCHANGED recordVars

-----------------------------------------------------------------------------
(* VCFParser.__iter__ (parser.py:109-141): every iter(parser) makes a      *)
(* generator; next() runs it to its next yield, raise or return.  The      *)
(* generators share the parser and its text source.                        *)

\* the check both blocks of __iter__ make on a split line
LineCheck(hdr, ln) ==
    IF hdr = NoAttr THEN "AttributeError"
    ELSE IF Len(hdr) # Len(Split(ln, TAB)) THEN "SyntaxError"
    ELSE NoError

RECURSIVE ForLoop(_, _, _)
\* "for line in self.vcf" from p lines read on, to the next yield or raise,
\* or to the end of the source
ForLoop(file, p, hdr) ==
    IF p >= Len(file) THEN [kind |-> "stop", pos |-> p, err |-> NoError]
    ELSE LET ln == RStrip(file[p + 1])
         IN  IF StartsWith(ln, <<"#">>) THEN ForLoop(file, p + 1, hdr)
             ELSE IF LineCheck(hdr, ln) # NoError
             THEN [kind |-> "raise", pos |-> p + 1, err |-> LineCheck(hdr, ln)]
             ELSE [kind |-> "yield", pos |-> p + 1, err |-> NoError]

\* iter(parser): the generator body does not run before the first next()
IterNew ==
    /\ status = "ok"
    /\ Len(gens) < MaxIters
    /\ gens' = Append(gens, "created")
    /\ UNCHANGED <<vcf, vcf_pos, status, metadata, header, samples, next_line,
                   next_idx, beginning, yielded, raised, names_call>>
    /\ UNCHANGED recordVars

\* next(g) on a fresh generator that finds self.beginning set and a
\* non-empty self.next_line: the first block of __iter__, up to its yield
NextFirst(g) ==
    /\ gens[g] = "created"
    /\ beginning /\ next_line # <<>>
    /\ LET e == LineCheck(header, next_line)
       IN  IF e # NoError
           THEN /\ gens' = [gens EXCEPT ![g] = "done"]
                /\ raised' = raised \cup {[gen |-> g, idx |-> next_idx, err |-> e]}
                /\ UNCHANGED yielded
           ELSE /\ gens' = [gens EXCEPT ![g] = "first_yield"]
                /\ yielded' = Append(yielded, next_idx)
                /\ UNCHANGED raised
    /\ UNCHANGED <<vcf, vcf_pos, status, metadata, header, samples, next_line,
                   next_idx, beginning, names_call>>
    /\ UNCHANGED recordVars

\* next(g) otherwise: a generator resumed after the first yield clears
\* self.beginning; then the for loop runs to its next yield, raise or end
NextLoop(g) ==
    /\ gens[g] \in {"created", "first_yield", "loop_yield"}
    /\ gens[g] = "created" => ~(beginning /\ next_line # <<>>)
    /\ beginning' = IF gens[g] = "first_yield" THEN FALSE ELSE beginning
    /\ \E r \in {ForLoop(vcf, vcf_pos, header)} :
        /\ vcf_pos' = r.pos
        /\ gens' = [gens EXCEPT ![g] = IF r.kind = "yield" THEN "loop_yield" ELSE "done"]
        /\ yielded' = IF r.kind = "yield" THEN Append(yielded, r.pos) ELSE yielded
        /\ raised' = IF r.kind = "raise"
                     THEN raised \cup {[gen |-> g, idx |-> r.pos, err |-> r.err]}
                     ELSE raised
    /\ UNCHANGED <<vcf, status, metadata, header, samples, next_line, next_idx,
                   names_call>>
    /\ UNCHANGED recordVars

NextReader ==
    \/ Construct
    \/ IterNew
    \/ \E g \in 1..Len(gens) : NextFirst(g)
    \/ \E g \in 1..Len(gens) : NextLoop(g)

SpecReader == InitReader /\ [][NextReader]_vars

-----------------------------------------------------------------------------
(* Properties of the reader (SpecReader).                                  *)

\* the leading block of a source: its lines up to the first one that does
\* not start with "#"
RECURSIVE LeadingBlock(_)
LeadingBlock(file) ==
    IF Len(file) = 0 \/ ~StartsWith(RStrip(file[1]), <<"#">>) THEN <<>>
    ELSE <<RStrip(file[1])>> \o LeadingBlock(Tail(file))

IsHeaderLine(ln) == StartsWith(ln, <<"#">>) /\ ~StartsWith(ln, <<"#", "#">>)

HeaderLines(file) ==
    {i \in 1..Len(LeadingBlock(file)) : IsHeaderLine(LeadingBlock(file)[i])}

C3_Columns(ln) == Split(SliceFrom(ln, 1), TAB)

\* C3: construction succeeds only when the leading "#" block holds exactly
\* one header line; it fails when the first line does not start with "#",
\* when a header's first 9 columns are not the fixed ones, when the header
\* has no sample column, and when more than one header line appears.
C3_AsStated ==
    status # "new" =>
        /\ status = "ok" => Cardinality(HeaderLines(vcf)) = 1
        /\ (Len(vcf) = 0 \/ ~StartsWith(RStrip(vcf[1]), <<"#">>)) => status # "ok"
        /\ (\E i \in HeaderLines(vcf) :
                \/ SliceTo(C3_Columns(LeadingBlock(vcf)[i]), 9) # header_columns
                \/ Len(C3_Columns(LeadingBlock(vcf)[i])) = 9) => status # "ok"
        /\ Cardinality(HeaderLines(vcf)) > 1 => status # "ok"

C4_Data(i) == RStrip(vcf[i])

C4_IsRecordLine(i) == C4_Data(i) # <<>> /\ ~StartsWith(C4_Data(i), <<"#">>)

\* C4: behind a parsed header, __iter__ raises the malformed-record error
\* exactly at a non-empty, non-comment line whose tab-split field count is
\* not the header's, and that ends the generator; every record yielded is a
\* non-empty, non-comment line with the header's field count; empty lines
\* and comment lines neither raise nor are yielded.
C4_AsStated ==
    (status = "ok" /\ header # NoAttr) =>
        /\ \A e \in raised :
              /\ e.err = "SyntaxError"
              /\ C4_IsRecordLine(e.idx)
              /\ Len(Split(C4_Data(e.idx), TAB)) # Len(header)
              /\ gens[e.gen] = "done"
        /\ \A k \in 1..Len(yielded) :
              /\ C4_IsRecordLine(yielded[k])
              /\ Len(Split(C4_Data(yielded[k]), TAB)) = Len(header)

\* C5: over all the generators of one parser, every data line is yielded at
\* most once and the records come in source order.
C5_AsStated ==
    \A j, k \in 1..Len(yielded) : j < k => yielded[j] < yielded[k]

-----------------------------------------------------------------------------
(* VCFParser.change_sample_names (parser.py:82-99).                        *)

Letters == {"a", "b", "S", "x", "m"}

\* the character class [a-zA-Z0-9_]
InClass(c) == c \in Letters \/ IsDigit(c) \/ c = "_"

\* self.sample_pattern.match(name) for "^[a-zA-Z0-9_]+$": one or more
\* characters of the class up to the end of the text, where "$" also
\* matches just before a newline that ends the text
sample_pattern_match(name) ==
    \/ Len(name) >= 1 /\ \A i \in 1..Len(name) : InClass(name[i])
    \/ /\ Len(name) >= 2 /\ name[Len(name)] = NL
       /\ \A i \in 1..(Len(name) - 1) : InClass(name[i])

\* change_sample_names(sample_names) on the parser's samples and header
ChangeSampleNamesResult(sample_names, smp, hdr) ==
    IF Len(sample_names) # Len(smp)
    THEN [err |-> "ValueError", samples |-> smp, header |-> hdr]
    ELSE IF ~(\A i \in 1..Len(sample_names) : sample_pattern_match(sample_names[i]))
    THEN [err |-> "ValueError", samples |-> smp, header |-> hdr]
    ELSE [err |-> NoError, samples |-> sample_names,
          header |-> SliceTo(hdr, 9) \o sample_names]

\* the names the parsers are given
NamePool == {<<"a">>, <<"b", "_", "2">>, <<"a", "-">>, <<"a", NL>>, <<>>}

\* the lists of the right length n, one that is too long and the empty one
NameLists(n) == [1..n -> NamePool] \cup {<<>>, [i \in 1..(n + 1) |-> <<"a">>]}

HeaderOnlySources ==
    {<<HeaderText(names)>> :
        names \in SeqsUpTo({<<"S", "1">>, <<"S", "2">>}, MaxSamples)}

\* a parser constructed from a source that holds one header line
InitNames ==
    /\ vcf \in HeaderOnlySources
    /\ LET r == ConstructResult(vcf)
       IN  /\ status = (IF r.err = NoError THEN "ok" ELSE r.err)
           /\ vcf_pos = r.pos /\ next_line = r.next_line /\ next_idx = r.pos
           /\ metadata = r.metadata /\ header = r.header /\ samples = r.samples
    /\ beginning = TRUE /\ gens = <<>> /\ yielded = <<>> /\ raised = {}
    /\ names_call = <<>>
    /\ IdleRecord

ChangeSampleNames ==
    /\ status = "ok"
    /\ \E sample_names \in NameLists(Len(samples)) :
         \E r \in {ChangeSampleNamesResult(sample_names, samples, header)} :
            /\ samples' = r.samples
            /\ header' = r.header
            /\ names_call' = [names |-> sample_names, err |-> r.err,
                              header_before |-> header, samples_before |-> samples]
    /\ UNCHANGED <<vcf, vcf_pos, status, metadata, next_line, next_idx, beginning,
                   gens, yielded, raised>>
    /\ UNCHANGED recordVars

NextNames == ChangeSampleNames

SpecNames == InitNames /\ [][NextNames]_vars

\* a name of one or more ASCII letters, digits or underscores
C8_ValidName(name) == Len(name) >= 1 /\ \A i \in 1..Len(name) : InClass(name[i])

\* C8: change_sample_names(names) fails and leaves header and samples as
\* they were when len(names) is not the number of samples or some name is
\* not one or more ASCII letters, digits or underscores; when it succeeds it
\* replaces header[9:] by names and nothing else.  After any calls
\* header[:9] is the fixed columns, header[9:] is samples, and the number of
\* samples is the one the source's header gave.
C8_AsStated ==
    /\ names_call # <<>> =>
         /\ (\/ Len(names_call.names) # Len(names_call.samples_before)
             \/ \E i \in 1..Len(names_call.names) : ~C8_ValidName(names_call.names[i]))
            => /\ names_call.err # NoError
               /\ header = names_call.header_before
               /\ samples = names_call.samples_before
         /\ names_call.err = NoError
            => /\ header = SliceTo(names_call.header_before, 9) \o names_call.names
               /\ samples = names_call.names
    /\ SliceTo(header, 9) = header_columns
    /\ SliceFrom(header, 9) = samples
    /\ Len(samples) = Len(Split(RStrip(vcf[1]), TAB)) - 9

=============================================================================
